---- MODULE Spec2Model ----
(***************************************************************************)
(* Model of the database access layer of localdb-mcp:                      *)
(*   - db.Manager (lazy, cached, concurrently created Drivers),            *)
(*   - server.ValidateReadOnlySQL and the run_query handler,               *)
(*   - db.validatePKColumns and the backends' UpdateRow.                   *)
(* Strings are sequences of one-character strings, so that regular         *)
(* expressions, joins and sorts are computed as the Go code computes them. *)
(***************************************************************************)
EXTENDS Integers, Sequences, FiniteSets, TLC

VARIABLES
    \* ---- db.Manager ----
    rev,            \* which revision of Manager.Driver's failure path is built
    cfgURI,         \* Config.connections: id -> uri
    drivers,        \* Manager.drivers: id -> Driver instance (0: no entry)
    mu,             \* Manager.mu: the goroutine holding it, or NoHolder
    inst,           \* every Driver instance ever constructed: [conn, closes]
    pc,             \* each goroutine's position in Driver / Close
    connectionID,   \* Driver's parameter, per goroutine
    newDriver,      \* Driver's local newDriver, per goroutine (0: nil)
    ret,            \* what the goroutine's last call returned
    calls,          \* number of Driver and Close calls started so far
    log,            \* lines written with log.Printf
    closedEver,     \* history: Manager.Close has been called
    ctorFailed,     \* history: ids for which a constructor has failed
    handed,         \* history: <<id, instance>> pairs returned by Driver
    failed,         \* history, per goroutine: a backend call of its current call failed
    \* ---- run_query handler and ValidateReadOnlySQL ----
    rqStage,        \* position of the run_query handler
    rqConn,         \* in.ConnectionID
    rqSQL,          \* in.SQL
    rqErr,          \* the error the handler returned (NilErr: none)
    executed,       \* SQL texts handed to Driver.RunReadOnlyQuery
    \* ---- validatePKColumns and UpdateRow ----
    backend,        \* the Driver implementation UpdateRow is called on
    tblCols,        \* the table's columns: name -> IsPK
    rows,           \* the table's rows: row number -> (column name -> value)
    key,            \* UpdateRow's key map: column name -> value
    set,            \* UpdateRow's set map: column name -> value
    updStage,       \* position of the UpdateRow call
    updN,           \* the row count UpdateRow returned
    updErr,         \* the error UpdateRow returned (NilErr: none)
    issued,         \* the UPDATE statements sent to the database, in order
    \* ---- placeholder translation ----
    phBackend,      \* the backend whose RunReadOnlyQuery gets the query
    phIn,           \* the query text
    phOut,          \* the text after the backend's placeholder translation
    phAgain,        \* the text after translating phOut once more
    phStage,        \* how far the translation has got
    \* ---- InsertRow ----
    insBackend,     \* the Driver implementation InsertRow is called on
    insCols,        \* the table's columns, in the table's order
    insIdentity,    \* the table's identity/serial/autoincrement column ("": none)
    insRow,         \* InsertRow's row map: column name -> value
    insStage,       \* position of the InsertRow call
    insOut,         \* what the database call handed back
    insRet,         \* the id InsertRow returned (Null: nil)
    insErr,         \* the error InsertRow returned (NilErr: none)
    insFailed,      \* history: a database call of this InsertRow failed
    \* ---- Config.ConnectionInfos ----
    connections,    \* Config.connections: id -> [Type, uri]
    lcStage,        \* whether ConnectionInfos has been called
    lcResult,       \* the []ConnectionInfo it returned
    \* ---- history of the Manager's calls and instances ----
    startedWith,    \* per goroutine: the instance cached for its id when its Driver call
                    \* started with no Close in progress (0: none)
    overtaken,      \* per goroutine: a Close call has started since its call started
    shut,           \* a Close has returned and no Driver call has started since
    everCached,     \* the instances that have been installed in the cache
    closedBy,       \* per instance: who has called its Close ("Close", "loser")
    ctorCalls,      \* per goroutine: constructor invocations of its current call
    \* ---- history ----
    trace           \* the calls a run_query request or an UpdateRow call made, in order

mgrVars == <<rev, cfgURI, drivers, mu, inst, pc, connectionID, newDriver, ret,
             calls, log, closedEver, ctorFailed, handed, failed>>

gateVars == <<rqStage, rqConn, rqSQL, rqErr, executed>>

updVars == <<backend, tblCols, rows, key, set, updStage, updN, updErr, issued>>

phVars == <<phBackend, phIn, phOut, phAgain, phStage>>

\* The variables of the parts that are single function calls.
insVars == <<insBackend, insCols, insIdentity, insRow, insStage, insOut, insRet, insErr,
             insFailed>>

lcVars == <<connections, lcStage, lcResult>>

histVars == <<startedWith, overtaken, shut, everCached, closedBy, ctorCalls>>

\* What the Manager's operations leave alone, and what the other parts do.
otherVars == <<phVars, insVars, lcVars>>

restVars == <<otherVars, histVars>>

vars == <<mgrVars, gateVars, updVars, trace, restVars>>

----------------------------------------------------------------------------
(* Bounds *)

MaxCalls == 3       \* Driver and Close calls started in one run
MaxInst == 3        \* Driver instances constructed in one run
MaxPieces == 4      \* pieces a SQL input is put together from
MaxVal == 1         \* column values are 0..MaxVal; the table has a row per value
MaxMarks == 4       \* pieces a query with placeholders is put together from

Procs == {"g1", "g2", "g3"}
NoHolder == "none"

----------------------------------------------------------------------------
(* Configuration: config.Config *)

ConfiguredIDs == {"postgres", "sqlite"}
AllIDs == ConfiguredIDs \cup {"nonexistent"}
URIs == {"uri1", "uri2"}

\* Two configurations with the same ids and types and different URIs.
Configs == { [id \in ConfiguredIDs |-> IF id = "postgres" THEN "uri1" ELSE "uri2"],
             [id \in ConfiguredIDs |-> IF id = "postgres" THEN "uri2" ELSE "uri1"] }

\* Mutant: every identifier counts as configured.
HasConnectionAlways(id) == TRUE

HasConnection(id) == id \in DOMAIN cfgURI

idToType(id) == IF id \in {"postgres", "sqlserver", "sqlite"} THEN id ELSE "postgres"

ConfigType(id) == idToType(id)

SupportedTypes == {"postgres", "sqlserver", "sqlite", "mysql"}

----------------------------------------------------------------------------
(* Error values: sequences of the pieces fmt.Errorf puts together.  <<>> is nil. *)

NilErr == <<>>

UnknownConnectionErr(id) == <<"unknown connection: ", id>>

UnsupportedTypeErr(id, typ) == <<"unsupported connection type ", typ, " for ", id>>

\* The raw error of a backend constructor: "<typ> open: %w" / "<typ> ping: %w"
\* around the client library's error, which may or may not embed the URI.
RawCtorErr(typ, uri, embeds) ==
    IF embeds THEN <<typ, " ping: ", "cannot connect to ", uri>>
              ELSE <<typ, " ping: ", "connection refused">>

\* Mutant: the raw error wrapped into the returned error.
ConnectErrWrapped(r, id, typ, raw) ==
    <<"failed to connect to ", id, " (", typ, "): ">> \o raw

\* The error Manager.Driver returns when the constructor failed.
ConnectErr(r, id, typ, raw) ==
    IF r = 1
    THEN <<"failed to connect to ", id, " (", typ, "); verify the connection URI is correct">>
    ELSE <<"failed to connect to ", id, " (", typ, "); check server logs for details">>

\* What Manager.Driver writes to the process log when the constructor failed.
ConnectLog(r, id, typ, raw) ==
    IF r = 1 THEN {}
    ELSE { <<"driver ", id, " (", typ, "): ">> \o raw }

----------------------------------------------------------------------------
(* db.Manager *)

NoRet == [kind |-> "none", d |-> 0, err |-> NilErr]

Constructed == {i \in 1..MaxInst : inst[i].conn # ""}
IsOpen(i) == inst[i].conn # "" /\ inst[i].closes = 0
OpenFor(id) == {i \in 1..MaxInst : inst[i].conn = id /\ inst[i].closes = 0}

\* A goroutine returns from Driver with (d, err).
Return(p, id, kind, d, err) ==
    /\ pc' = [pc EXCEPT ![p] = "done"]
    /\ ret' = [ret EXCEPT ![p] = [kind |-> kind, d |-> d, err |-> err]]
    /\ handed' = IF err = NilErr /\ d # 0
                 THEN handed \cup {<<id, d>>} ELSE handed

\* Driver, entry: the configuration lookup, then m.mu.Lock() is requested.
DriverCall(p, id) ==
    /\ pc[p] \in {"idle", "done"}
    /\ calls < MaxCalls
    /\ calls' = calls + 1
    /\ connectionID' = [connectionID EXCEPT ![p] = id]
    /\ newDriver' = [newDriver EXCEPT ![p] = 0]
    /\ IF ~HasConnection(id)
       THEN Return(p, id, "unknown", 0, UnknownConnectionErr(id))
       ELSE /\ pc' = [pc EXCEPT ![p] = "lock1"]
            /\ ret' = [ret EXCEPT ![p] = NoRet]
            /\ handed' = handed
    /\ failed' = [failed EXCEPT ![p] = FALSE]
    /\ UNCHANGED <<gateVars, updVars, otherVars, trace, rev, cfgURI, drivers, mu, inst, log, closedEver, ctorFailed>>

\* m.mu.Lock() before the cache read.
DriverLock1(p) ==
    /\ pc[p] = "lock1"
    /\ mu = NoHolder
    /\ mu' = p
    /\ pc' = [pc EXCEPT ![p] = "read"]
    /\ UNCHANGED <<gateVars, updVars, otherVars, trace, failed, rev, cfgURI, drivers, inst, connectionID, newDriver, ret,
                   calls, log, closedEver, ctorFailed, handed>>

\* Mutant: the lock is kept across the constructor.
LookupUnlockKept(p) == mu

\* The lock after the cache read: m.mu.Unlock().
LookupUnlock(p) == NoHolder

\* Mutant: the cache read never finds an entry.
CachedNever(p) == FALSE

\* d, cached := m.drivers[connectionID]
Cached(p) == drivers[connectionID[p]] # 0

\* d, cached := m.drivers[connectionID]; m.mu.Unlock(); if cached { return d, nil }
DriverLookup(p) ==
    /\ pc[p] = "read"
    /\ mu' = LookupUnlock(p)
    /\ IF Cached(p)
       THEN Return(p, connectionID[p], "cached", drivers[connectionID[p]], NilErr)
       ELSE /\ pc' = [pc EXCEPT ![p] = "ctor"]
            /\ UNCHANGED <<ret, handed>>
    /\ UNCHANGED <<gateVars, updVars, otherVars, trace, failed, rev, cfgURI, drivers, inst, connectionID, newDriver,
                   calls, log, closedEver, ctorFailed>>

\* The constructor succeeds: a fresh open instance.
DriverConstructOk(p) ==
    /\ pc[p] = "ctor"
    /\ ConfigType(connectionID[p]) \in SupportedTypes
    /\ Cardinality(Constructed) < MaxInst
    /\ LET i == Cardinality(Constructed) + 1 IN
        /\ inst' = [inst EXCEPT ![i] = [conn |-> connectionID[p], closes |-> 0]]
        /\ newDriver' = [newDriver EXCEPT ![p] = i]
    /\ pc' = [pc EXCEPT ![p] = "lock2"]
    /\ UNCHANGED <<gateVars, updVars, otherVars, trace, failed, rev, cfgURI, drivers, mu, connectionID, ret, calls, log,
                   closedEver, ctorFailed, handed>>

\* Mutant: a failed constructor is tried again.
DriverConstructFailRetry(p) ==
    /\ pc[p] = "ctor"
    /\ \E embeds \in BOOLEAN :
         LET id == connectionID[p]
             raw == RawCtorErr(ConfigType(id), cfgURI[id], embeds) IN
           /\ log' = log \cup ConnectLog(rev, id, ConfigType(id), raw)
           /\ ctorFailed' = ctorFailed \cup {id}
    /\ failed' = [failed EXCEPT ![p] = TRUE]
    /\ UNCHANGED <<gateVars, updVars, otherVars, trace, rev, cfgURI, drivers, mu, inst, connectionID, newDriver,
                   calls, closedEver, pc, ret, handed>>

\* The constructor fails (or the type is unsupported): Driver returns an error.
DriverConstructFail(p) ==
    /\ pc[p] = "ctor"
    /\ LET id == connectionID[p]
           typ == ConfigType(id)
       IN IF typ \notin SupportedTypes
          THEN /\ Return(p, id, "unsupported", 0, UnsupportedTypeErr(id, typ))
               /\ UNCHANGED <<log, ctorFailed>>
          ELSE \E embeds \in BOOLEAN :
                 LET raw == RawCtorErr(typ, cfgURI[id], embeds) IN
                   /\ log' = log \cup ConnectLog(rev, id, typ, raw)
                   /\ ctorFailed' = ctorFailed \cup {id}
                   /\ Return(p, id, "connfail", 0, ConnectErr(rev, id, typ, raw))
    /\ failed' = [failed EXCEPT ![p] = ConfigType(connectionID[p]) \in SupportedTypes]
    /\ UNCHANGED <<gateVars, updVars, otherVars, trace, rev, cfgURI, drivers, mu, inst, connectionID, newDriver,
                   calls, closedEver>>

\* m.mu.Lock() before the install.
DriverLock2(p) ==
    /\ pc[p] = "lock2"
    /\ mu = NoHolder
    /\ mu' = p
    /\ pc' = [pc EXCEPT ![p] = "install"]
    /\ UNCHANGED <<gateVars, updVars, otherVars, trace, failed, rev, cfgURI, drivers, inst, connectionID, newDriver, ret,
                   calls, log, closedEver, ctorFailed, handed>>

\* Mutant: the install overwrites an existing entry.
InstallFindsExistingNever(p) == FALSE

\* if existing, ok := m.drivers[connectionID]; ok
InstallFindsExisting(p) == drivers[connectionID[p]] # 0

\* Mutant: the early return on a duplicate leaves the lock held.
InstallUnlockNotOnDuplicate(p) == IF InstallFindsExisting(p) THEN mu ELSE NoHolder

\* The lock after the re-check: m.mu.Unlock() on both branches.
InstallUnlock(p) == NoHolder

\* The re-check under the lock: install, or give way to the existing entry.
DriverInstall(p) ==
    /\ pc[p] = "install"
    /\ mu' = InstallUnlock(p)
    /\ IF InstallFindsExisting(p)
       THEN /\ pc' = [pc EXCEPT ![p] = "closedup"]
            /\ ret' = [ret EXCEPT ![p] = [kind |-> "loser",
                                          d |-> drivers[connectionID[p]],
                                          err |-> NilErr]]
            /\ UNCHANGED <<drivers, handed>>
       ELSE /\ drivers' = [drivers EXCEPT ![connectionID[p]] = newDriver[p]]
            /\ Return(p, connectionID[p], "installed", newDriver[p], NilErr)
    /\ UNCHANGED <<gateVars, updVars, otherVars, trace, failed, rev, cfgURI, inst, connectionID, newDriver, calls, log,
                   closedEver, ctorFailed>>

\* Driver.Close on an instance (its error is ignored by the Manager).
CloseInstance(i) == [inst EXCEPT ![i].closes = @ + 1]

\* Mutant: the duplicate is dropped without Close.
CloseDuplicateSkipped(i) == inst

\* newDriver.Close() of the race's loser.
CloseDuplicate(i) == CloseInstance(i)

\* newDriver.Close(); return existing, nil
DriverCloseDup(p) ==
    /\ pc[p] = "closedup"
    /\ inst' = CloseDuplicate(newDriver[p])
    /\ Return(p, connectionID[p], "loser", ret[p].d, NilErr)
    \* newDriver.Close() succeeds or fails; its result is dropped
    /\ \E closeOK \in BOOLEAN : failed' = [failed EXCEPT ![p] = ~closeOK]
    /\ UNCHANGED <<gateVars, updVars, otherVars, trace, rev, cfgURI, drivers, mu, connectionID, newDriver, calls,
                   log, closedEver, ctorFailed>>

\* Manager.Close, entry: m.mu.Lock() is requested.
CloseCall(p) ==
    /\ pc[p] \in {"idle", "done"}
    /\ calls < MaxCalls
    /\ calls' = calls + 1
    /\ pc' = [pc EXCEPT ![p] = "cl_lock"]
    /\ ret' = [ret EXCEPT ![p] = NoRet]
    /\ connectionID' = [connectionID EXCEPT ![p] = ""]
    /\ newDriver' = [newDriver EXCEPT ![p] = 0]
    /\ closedEver' = TRUE
    /\ failed' = [failed EXCEPT ![p] = FALSE]
    /\ UNCHANGED <<gateVars, updVars, otherVars, trace, rev, cfgURI, drivers, mu, inst, log, ctorFailed, handed>>

CloseLock(p) ==
    /\ pc[p] = "cl_lock"
    /\ mu = NoHolder
    /\ mu' = p
    /\ pc' = [pc EXCEPT ![p] = "cl_loop"]
    /\ UNCHANGED <<gateVars, updVars, otherVars, trace, failed, rev, cfgURI, drivers, inst, connectionID, newDriver, ret,
                   calls, log, closedEver, ctorFailed, handed>>

\* Mutant: the entries are deleted without closing the Driver.
CloseOneNoClose(p) ==
    /\ pc[p] = "cl_loop"
    /\ \E id \in DOMAIN drivers :
        /\ drivers[id] # 0
        /\ drivers' = [drivers EXCEPT ![id] = 0]
    /\ UNCHANGED <<gateVars, updVars, otherVars, trace, failed, rev, cfgURI, mu, pc, inst, connectionID,
                   newDriver, ret, calls, log, closedEver, ctorFailed, handed>>

\* Mutant: the Driver is closed and its entry is left in the cache.
CloseOneKeepEntry(p) ==
    /\ pc[p] = "cl_loop"
    /\ \E id \in DOMAIN drivers :
        /\ drivers[id] # 0
        /\ inst[drivers[id]].closes < MaxCalls
        /\ inst' = CloseInstance(drivers[id])
    /\ UNCHANGED <<gateVars, updVars, otherVars, trace, failed, rev, cfgURI, mu, pc, connectionID, newDriver,
                   ret, calls, log, closedEver, ctorFailed, handed, drivers>>

\* One iteration of: for id, d := range m.drivers { _ = d.Close(); delete(m.drivers, id) }
CloseOne(p) ==
    /\ pc[p] = "cl_loop"
    /\ \E id \in DOMAIN drivers :
        /\ drivers[id] # 0
        /\ inst' = CloseInstance(drivers[id])
        /\ drivers' = [drivers EXCEPT ![id] = 0]
    \* d.Close() succeeds or fails; _ = drops its result
    /\ \E closeOK \in BOOLEAN : failed' = [failed EXCEPT ![p] = @ \/ ~closeOK]
    /\ UNCHANGED <<gateVars, updVars, otherVars, trace, rev, cfgURI, mu, pc, connectionID, newDriver, ret, calls,
                   log, closedEver, ctorFailed, handed>>

\* The loop is over: return nil, and the deferred m.mu.Unlock() runs.
CloseReturn(p) ==
    /\ pc[p] = "cl_loop"
    /\ \A id \in DOMAIN drivers : drivers[id] = 0
    /\ mu' = NoHolder
    /\ Return(p, "", "closed", 0, NilErr)
    /\ UNCHANGED <<gateVars, updVars, otherVars, trace, failed, rev, cfgURI, drivers, inst, connectionID, newDriver, calls,
                   log, closedEver, ctorFailed>>

MgrNext ==
    \E p \in Procs :
        \/ \E id \in AllIDs : DriverCall(p, id)
        \/ DriverLock1(p)
        \/ DriverLookup(p)
        \/ DriverConstructOk(p)
        \/ DriverConstructFail(p)
        \/ DriverLock2(p)
        \/ DriverInstall(p)
        \/ DriverCloseDup(p)
        \/ CloseCall(p)
        \/ CloseLock(p)
        \/ CloseOne(p)
        \/ CloseReturn(p)

----------------------------------------------------------------------------
(* The history of the Manager's calls and instances, written next to its steps *)

InFlight(q) == pc[q] \notin {"idle", "done"}

CloseInProgress == \E q \in Procs : pc[q] \in {"cl_lock", "cl_loop"}

\* A Driver call starts: what the cache holds for its id, if no Close is running.
NoteDriverCall(p, id) ==
    /\ startedWith' = [startedWith EXCEPT ![p] =
            IF HasConnection(id) /\ ~CloseInProgress THEN drivers[id] ELSE 0]
    /\ overtaken' = [overtaken EXCEPT ![p] = FALSE]
    /\ shut' = FALSE
    /\ ctorCalls' = [ctorCalls EXCEPT ![p] = 0]
    /\ UNCHANGED <<everCached, closedBy>>

\* A Close call starts: it overtakes the calls in flight.
NoteCloseCall(p) ==
    /\ startedWith' = [startedWith EXCEPT ![p] = 0]
    /\ overtaken' = [q \in Procs |-> IF q = p THEN FALSE ELSE overtaken[q] \/ InFlight(q)]
    /\ ctorCalls' = [ctorCalls EXCEPT ![p] = 0]
    /\ UNCHANGED <<shut, everCached, closedBy>>

NoteCloseReturn(p) ==
    /\ shut' = TRUE
    /\ UNCHANGED <<startedWith, overtaken, everCached, closedBy, ctorCalls>>

\* The instances the step has put into the cache.
NoteInstall(p) ==
    /\ everCached' = everCached \cup {drivers'[id] : id \in {i \in DOMAIN drivers : drivers'[i] # drivers[i]}}
    /\ UNCHANGED <<startedWith, overtaken, shut, closedBy, ctorCalls>>

\* The instances whose Close the step has called, and on whose behalf.
NoteClose(who) ==
    /\ closedBy' = [i \in 1..MaxInst |->
            IF inst'[i].closes # inst[i].closes THEN closedBy[i] \cup {who} ELSE closedBy[i]]
    /\ UNCHANGED <<startedWith, overtaken, shut, everCached, ctorCalls>>

\* NewPostgresDriver / NewSQLServerDriver / NewSQLiteDriver / NewMySQLDriver is invoked.
NoteCtor(p) ==
    /\ ctorCalls' = [ctorCalls EXCEPT ![p] = @ + 1]
    /\ UNCHANGED <<startedWith, overtaken, shut, everCached, closedBy>>

\* The Manager's operations with their history.
TrackedNext ==
    \E p \in Procs :
        \/ \E id \in AllIDs : DriverCall(p, id) /\ NoteDriverCall(p, id)
        \/ DriverLock1(p) /\ UNCHANGED histVars
        \/ DriverLookup(p) /\ UNCHANGED histVars
        \/ DriverConstructOk(p) /\ NoteCtor(p)
        \/ DriverConstructFail(p) /\ NoteCtor(p)
        \/ DriverLock2(p) /\ UNCHANGED histVars
        \/ DriverInstall(p) /\ NoteInstall(p)
        \/ DriverCloseDup(p) /\ NoteClose("loser")
        \/ CloseCall(p) /\ NoteCloseCall(p)
        \/ CloseLock(p) /\ UNCHANGED histVars
        \/ CloseOne(p) /\ NoteClose("Close")
        \/ CloseReturn(p) /\ NoteCloseReturn(p)

----------------------------------------------------------------------------
(* Strings: sequences of one-character strings *)

Range(s) == {s[i] : i \in 1..Len(s)}
MinOf(S) == CHOOSE x \in S : \A y \in S : x <= y
MaxOf(S) == CHOOSE x \in S : \A y \in S : x >= y

LowerLetters == <<"a", "b", "c", "d", "e", "f", "g", "h", "i", "j", "k", "l", "m", "n", "o", "p", "q", "r", "s", "t", "u", "v", "w", "x", "y", "z">>
UpperLetters == <<"A", "B", "C", "D", "E", "F", "G", "H", "I", "J", "K", "L", "M", "N", "O", "P", "Q", "R", "S", "T", "U", "V", "W", "X", "Y", "Z">>
Digits == {"0", "1", "2", "3", "4", "5", "6", "7", "8", "9"}

\* strings.ToUpper, on ASCII
ToUpperChar(c) ==
    IF \E i \in 1..Len(LowerLetters) : LowerLetters[i] = c
    THEN UpperLetters[CHOOSE i \in 1..Len(LowerLetters) : LowerLetters[i] = c]
    ELSE c
ToUpper(s) == [i \in 1..Len(s) |-> ToUpperChar(s[i])]

\* The word characters of the regular expression's \b: [0-9A-Za-z_]
IsWordChar(c) == c \in Range(LowerLetters) \cup Range(UpperLetters) \cup Digits \cup {"_"}

\* unicode.IsSpace, on ASCII
IsSpace(c) == c \in {" ", "\t", "\n", "\r", "\f"}

----------------------------------------------------------------------------
(* server.ValidateReadOnlySQL *)

forbiddenSQLWords ==
    << <<"I", "N", "S", "E", "R", "T">>,
       <<"U", "P", "D", "A", "T", "E">>,
       <<"D", "E", "L", "E", "T", "E">>,
       <<"D", "R", "O", "P">>,
       <<"C", "R", "E", "A", "T", "E">>,
       <<"A", "L", "T", "E", "R">>,
       <<"T", "R", "U", "N", "C", "A", "T", "E">>,
       <<"G", "R", "A", "N", "T">>,
       <<"R", "E", "V", "O", "K", "E">>,
       <<"E", "X", "E", "C">>,
       <<"E", "X", "E", "C", "U", "T", "E">>,
       <<"M", "E", "R", "G", "E">>,
       <<"R", "E", "P", "L", "A", "C", "E">> >>

\* [^\n]* from position j: the index of the next "\n", or Len(s) + 1
EndOfLine(s, j) ==
    LET ks == {k \in j..Len(s) : s[k] = "\n"}
    IN IF ks = {} THEN Len(s) + 1 ELSE MinOf(ks)

\* sqlLineComment.ReplaceAllString(s, repl): --[^\n]*
RECURSIVE ReplaceLineFrom(_, _, _)
ReplaceLineFrom(s, i, repl) ==
    IF i > Len(s) THEN <<>>
    ELSE IF i < Len(s) /\ s[i] = "-" /\ s[i + 1] = "-"
         THEN repl \o ReplaceLineFrom(s, EndOfLine(s, i + 2), repl)
         ELSE <<s[i]>> \o ReplaceLineFrom(s, i + 1, repl)

\* [\s\S]*?\*/ from a "/*" at i: the index of the first "*/" after it (0: none)
BlockEnd(s, i) ==
    LET js == {j \in (i + 2)..(Len(s) - 1) : s[j] = "*" /\ s[j + 1] = "/"}
    IN IF js = {} THEN 0 ELSE MinOf(js)

\* sqlBlockComment.ReplaceAllString(s, repl): /\*[\s\S]*?\*/
RECURSIVE ReplaceBlockFrom(_, _, _)
ReplaceBlockFrom(s, i, repl) ==
    IF i > Len(s) THEN <<>>
    ELSE IF i < Len(s) /\ s[i] = "/" /\ s[i + 1] = "*" /\ BlockEnd(s, i) # 0
         THEN repl \o ReplaceBlockFrom(s, BlockEnd(s, i) + 2, repl)
         ELSE <<s[i]>> \o ReplaceBlockFrom(s, i + 1, repl)

\* strings.TrimSpace
TrimSpace(s) ==
    LET ns == {i \in 1..Len(s) : ~IsSpace(s[i])}
    IN IF ns = {} THEN <<>> ELSE SubSeq(s, MinOf(ns), MaxOf(ns))

\* Mutant: the comments are deleted instead of replaced by a space.
StripCommentsDeleting(s) == ReplaceBlockFrom(ReplaceLineFrom(s, 1, <<>>), 1, <<>>)

\* cleaned := sqlLineComment.ReplaceAllString(sql, " ")
\* cleaned = sqlBlockComment.ReplaceAllString(cleaned, " ")
StripComments(s) == ReplaceBlockFrom(ReplaceLineFrom(s, 1, <<" ">>), 1, <<" ">>)

IsWordAt(s, k) == k >= 1 /\ k <= Len(s) /\ IsWordChar(s[k])

\* \b at the position before s[k]
WordBoundary(s, k) == IsWordAt(s, k - 1) # IsWordAt(s, k)

\* Mutant: the keyword is matched without the two \b.
MatchesAtNoBoundary(s, i, w) ==
    /\ i + Len(w) - 1 <= Len(s)
    /\ \A k \in 1..Len(w) : ToUpperChar(s[i + k - 1]) = w[k]

\* (?i)\b(w)\b matches at position i
MatchesAt(s, i, w) ==
    /\ i + Len(w) - 1 <= Len(s)
    /\ \A k \in 1..Len(w) : ToUpperChar(s[i + k - 1]) = w[k]
    /\ WordBoundary(s, i)
    /\ WordBoundary(s, i + Len(w))

\* forbiddenWordRe.FindStringIndex(s): <<loc[0], loc[1]>>, 1-based start and
\* exclusive end of the leftmost match (first alternative first); <<>> is nil.
FindForbidden(s) ==
    LET N == Len(forbiddenSQLWords)
        hits == {i \in 1..Len(s) : \E n \in 1..N : MatchesAt(s, i, forbiddenSQLWords[n])}
    IN IF hits = {} THEN <<>>
       ELSE LET i == MinOf(hits)
                n == MinOf({m \in 1..N : MatchesAt(s, i, forbiddenSQLWords[m])})
            IN <<i, i + Len(forbiddenSQLWords[n])>>

EmptyStatementErr == <<"empty SQL after removing comments">>
NotReadOnlyErr(word) == <<"read-only queries only: found ">> \o word

ValidateReadOnlySQL(sql) ==
    LET cleaned == TrimSpace(StripComments(sql))
        loc == FindForbidden(cleaned)
    IN IF cleaned = <<>> THEN EmptyStatementErr
       ELSE IF loc # <<>>
            THEN NotReadOnlyErr(ToUpper(SubSeq(cleaned, loc[1], loc[2] - 1)))
            ELSE NilErr

----------------------------------------------------------------------------
(* The run_query handler *)

\* The pieces the SQL inputs are put together from.
Pieces ==
    { <<"/", "*">>, <<"*", "/">>, <<"-", "-">>, <<"\n">>, <<"'">>,
      <<"D", "r", "o", "p">>, <<"E", "x", "e", "c">>, <<"x">> }

RECURSIVE InputsUpTo(_)
InputsUpTo(n) ==
    IF n = 0 THEN {<<>>}
    ELSE LET shorter == InputsUpTo(n - 1)
         IN shorter \cup {p \o s : p \in Pieces, s \in shorter}

Inputs == InputsUpTo(MaxPieces)

RQConns == {"postgres", "nonexistent"}

\* The pieces of the inputs made of keywords, identifier characters, quotes
\* and blanks.
WordPieces ==
    { <<"D", "r", "o", "p">>, <<"e", "x", "e", "c">>, <<"x">>, <<"_">>, <<"1">>,
      <<"'">>, <<"\"">>, <<" ">> }

RECURSIVE WordInputsUpTo(_)
WordInputsUpTo(n) ==
    IF n = 0 THEN {<<>>}
    ELSE LET shorter == WordInputsUpTo(n - 1)
         IN shorter \cup {p \o s : p \in WordPieces, s \in shorter}

MgrInitWith(r, c) ==
    /\ rev = r
    /\ cfgURI = c
    /\ drivers = [id \in ConfiguredIDs |-> 0]
    /\ mu = NoHolder
    /\ inst = [i \in 1..MaxInst |-> [conn |-> "", closes |-> 0]]
    /\ pc = [p \in Procs |-> "idle"]
    /\ connectionID = [p \in Procs |-> ""]
    /\ newDriver = [p \in Procs |-> 0]
    /\ ret = [p \in Procs |-> NoRet]
    /\ calls = 0
    /\ log = {}
    /\ closedEver = FALSE
    /\ ctorFailed = {}
    /\ handed = {}
    /\ failed = [p \in Procs |-> FALSE]

MgrInit == \E r \in {1, 2} : \E c \in Configs : MgrInitWith(r, c)

MgrRest == MgrInitWith(1, CHOOSE c \in Configs : c["postgres"] = "uri1")

GateRest ==
    /\ rqStage = "off"
    /\ rqConn = ""
    /\ rqSQL = <<>>
    /\ rqErr = NilErr
    /\ executed = {}

\* connID and sql, the arguments of one run_query request
GateInit ==
    /\ rqStage = "start"
    /\ rqConn \in RQConns
    /\ rqSQL \in Inputs
    /\ rqErr = NilErr
    /\ executed = {}

\* One run_query request on a configured connection, its text made of words
WordsInit ==
    /\ rqStage = "start"
    /\ rqConn = "postgres"
    /\ rqSQL \in WordInputsUpTo(MaxPieces)
    /\ rqErr = NilErr
    /\ executed = {}

RunQueryReturn(err) ==
    /\ rqStage' = "done"
    /\ rqErr' = err

\* err := ValidateReadOnlySQL(sql)
RunQueryValidate ==
    /\ rqStage = "start"
    /\ rqStage' = "validated"
    /\ rqErr' = ValidateReadOnlySQL(rqSQL)
    /\ trace' = Append(trace, "ValidateReadOnlySQL")
    /\ UNCHANGED <<rqConn, rqSQL, executed, mgrVars, updVars, restVars>>

\* Mutant: the handler goes on to the Driver whatever the gate said.
RunQueryGateSkipped ==
    /\ rqStage = "validated"
    /\ rqStage' = "driver"
    /\ rqErr' = NilErr
    /\ UNCHANGED <<rqConn, rqSQL, executed, trace, mgrVars, updVars, restVars>>

\* if err != nil { return mcp.NewToolResultError(err.Error()), nil }
RunQueryGate ==
    /\ rqStage = "validated"
    /\ IF rqErr # NilErr
       THEN RunQueryReturn(rqErr)
       ELSE rqStage' = "driver" /\ rqErr' = NilErr
    /\ UNCHANGED <<rqConn, rqSQL, executed, trace, mgrVars, updVars, restVars>>

\* driver, err := mgr.Driver(ctx, connID): a Driver or an error
RunQueryDriver ==
    /\ rqStage = "driver"
    /\ IF ~HasConnection(rqConn)
       THEN RunQueryReturn(UnknownConnectionErr(rqConn))
       ELSE \/ rqStage' = "exec" /\ rqErr' = NilErr
            \/ RunQueryReturn(ConnectErr(rev, rqConn, ConfigType(rqConn), <<>>))
    /\ trace' = Append(trace, "Manager.Driver")
    /\ UNCHANGED <<rqConn, rqSQL, executed, mgrVars, updVars, restVars>>

\* rows, err := driver.RunReadOnlyQuery(ctx, sql, params)
RunQueryExec ==
    /\ rqStage = "exec"
    /\ executed' = executed \cup {rqSQL}
    /\ \E err \in {NilErr, <<"backend error">>} : RunQueryReturn(err)
    /\ trace' = Append(trace, "RunReadOnlyQuery")
    /\ UNCHANGED <<rqConn, rqSQL, mgrVars, updVars, restVars>>

----------------------------------------------------------------------------
(* db.validatePKColumns and the backends' UpdateRow *)

Backends == {"sqlite", "postgres", "mysql", "sqlserver"}

\* Column names; a quoted identifier may hold any character, a comma too.
ColA == <<"a">>
ColB == <<"b">>
ColAB == <<"a", ",", "b">>
ColV == <<"v">>
KeyNames == {ColA, ColB, ColAB}
SetNames == {ColV, ColA}
Vals == 0..MaxVal
TableName == "t"

\* The table DescribeTable returns no columns for.
NoColumns == [c \in {} |-> FALSE]

\* The tables: a plain column v, and a, b and "a,b" each absent, plain or
\* part of the primary key; and the table without columns.
Tables ==
    UNION { { [c \in S \cup {ColV} |-> c \in P] : P \in SUBSET S } : S \in SUBSET KeyNames }
        \cup {NoColumns}

MapsOver(Names) == UNION { [S -> Vals] : S \in SUBSET Names }

\* The table's content: a row per value, the value in its primary-key columns
\* (so the key is unique); the other columns hold 0 in every row.
InitialRows(cols) == [r \in Vals |-> [c \in DOMAIN cols |-> IF cols[c] THEN r ELSE 0]]

\* The byte of a character, for the order of sort.Strings
CharCode(c) ==
    CASE c = "," -> 44
      [] c = "a" -> 97
      [] c = "b" -> 98
      [] c = "v" -> 118

\* Go's string order: bytewise lexicographic, a proper prefix first
LessStr(x, y) ==
    \E k \in 1..(Len(y)) :
        /\ \A j \in 1..(k - 1) : j <= Len(x) /\ x[j] = y[j]
        /\ k - 1 <= Len(x)
        /\ (k > Len(x) \/ CharCode(x[k]) < CharCode(y[k]))

\* sort.Strings, on the names of a set
RECURSIVE SortStrings(_)
SortStrings(S) ==
    IF S = {} THEN <<>>
    ELSE LET m == CHOOSE x \in S : \A y \in S \ {x} : LessStr(x, y)
         IN <<m>> \o SortStrings(S \ {m})

\* strings.Join
RECURSIVE Join(_, _)
Join(elems, sep) ==
    IF elems = <<>> THEN <<>>
    ELSE IF Len(elems) = 1 THEN elems[1]
    ELSE elems[1] \o sep \o Join(Tail(elems), sep)

DescribeFailedErr == <<"update row: failed to describe table: ", "describe error">>
NoPrimaryKeyErr(table) ==
    <<"update row: table ", table, " has no primary key; update_test_row requires one">>
RowNotFoundErr == <<"update row: no row found with the given key">>
KeyMismatchErr(provided, pkCols) ==
    <<"update row: key columns {">> \o Join(provided, <<",", " ">>)
        \o <<"} do not match primary key {">> \o Join(pkCols, <<",", " ">>) \o <<"}">>

\* strings.Join(provided, ",") != strings.Join(pkCols, ","), negated
KeyMatches(provided, pkCols) ==
    Join(provided, <<",">>) = Join(pkCols, <<",">>)

\* Mutant: the key's names are compared before the primary key is looked at.
validatePKColumnsCompareFirst(describeOK, cols, table, k) ==
    LET pkCols == SortStrings({c \in DOMAIN cols : cols[c]})
        provided == SortStrings(DOMAIN k)
    IN IF ~describeOK THEN DescribeFailedErr
       ELSE IF ~KeyMatches(provided, pkCols) THEN KeyMismatchErr(provided, pkCols)
       ELSE IF Len(pkCols) = 0 THEN NoPrimaryKeyErr(table)
       ELSE NilErr

\* validatePKColumns(ctx, d, schema, table, key); describeOK: DescribeTable
\* returned the columns cols
validatePKColumns(describeOK, cols, table, k) ==
    LET pkCols == SortStrings({c \in DOMAIN cols : cols[c]})
        provided == SortStrings(DOMAIN k)
    IN IF ~describeOK THEN DescribeFailedErr
       ELSE IF Len(pkCols) = 0 THEN NoPrimaryKeyErr(table)
       ELSE IF ~KeyMatches(provided, pkCols) THEN KeyMismatchErr(provided, pkCols)
       ELSE NilErr

\* The placeholder of the n-th parameter in a backend's UPDATE statement
Placeholder(b, n) ==
    CASE b = "sqlite" -> <<"?", n>>
      [] b = "postgres" -> <<"$", n>>
      [] b = "mysql" -> <<"?">>
      [] b = "sqlserver" -> <<"@p", n>>

\* mapsToColumnsAndValues: the columns of a map in some iteration order
Orders(m) ==
    {q \in [1..Cardinality(DOMAIN m) -> DOMAIN m] :
        \A i, j \in DOMAIN q : i # j => q[i] # q[j]}

\* Mutant: the key's values are put before the set's values.
UpdateStatementKeyFirst(b, table, setCols, keyCols, s, k) ==
    [ table  |-> table,
      sets   |-> [i \in DOMAIN setCols |-> <<setCols[i], Placeholder(b, i)>>],
      wheres |-> [i \in DOMAIN keyCols |-> <<keyCols[i], Placeholder(b, Len(setCols) + i)>>],
      params |-> [i \in DOMAIN keyCols |-> k[keyCols[i]]]
                    \o [i \in DOMAIN setCols |-> s[setCols[i]]] ]

\* "UPDATE <table> SET <col = placeholder, ...> WHERE <col = placeholder AND ...>"
\* and its params
UpdateStatement(b, table, setCols, keyCols, s, k) ==
    [ table  |-> table,
      sets   |-> [i \in DOMAIN setCols |-> <<setCols[i], Placeholder(b, i)>>],
      wheres |-> [i \in DOMAIN keyCols |-> <<keyCols[i], Placeholder(b, Len(setCols) + i)>>],
      params |-> [i \in DOMAIN setCols |-> s[setCols[i]]]
                    \o [i \in DOMAIN keyCols |-> k[keyCols[i]]] ]

\* The database's side of the statement: the rows the WHERE selects
Matched(rs, k) == {r \in DOMAIN rs : \A c \in DOMAIN k : rs[r][c] = k[c]}

Updated(rs, k, s) ==
    [r \in DOMAIN rs |->
        IF r \in Matched(rs, k)
        THEN [c \in DOMAIN rs[r] |-> IF c \in DOMAIN s THEN s[c] ELSE rs[r][c]]
        ELSE rs[r]]

PrimaryKeyUnique(cols, rs) ==
    LET pk == {c \in DOMAIN cols : cols[c]}
    IN \A r1, r2 \in DOMAIN rs :
        (r1 # r2 /\ pk # {}) => \E c \in pk : rs[r1][c] # rs[r2][c]

\* Mutant: every backend counts only the rows whose values changed.
RowsAffectedChanged(b, matched, changed) == {changed}

\* result.RowsAffected() / tag.RowsAffected(): the rows the WHERE matched;
\* MySQL reports the rows matched or the rows changed, as the connection is
\* set up (changed, unless the DSN asks for found rows).
RowsAffected(b, matched, changed) ==
    IF b = "mysql" THEN {matched, changed} ELSE {matched}

UpdRest ==
    /\ backend = "sqlite"
    /\ tblCols = [c \in {ColV} |-> FALSE]
    /\ rows = InitialRows(tblCols)
    /\ key = <<>>
    /\ set = <<>>
    /\ updStage = "off"
    /\ updN = 0
    /\ updErr = NilErr
    /\ issued = <<>>

\* One call UpdateRow(ctx, schema, table, key, set) on one backend and table
UpdInit ==
    /\ backend \in Backends
    /\ tblCols \in Tables
    /\ rows = InitialRows(tblCols)
    /\ key \in MapsOver(KeyNames)
    /\ set \in MapsOver(SetNames)
    /\ updStage = "start"
    /\ updN = 0
    /\ updErr = NilErr
    /\ issued = <<>>

UpdateRowReturn(n, err) ==
    /\ updStage' = "done"
    /\ updN' = n
    /\ updErr' = err

\* validatePKColumns called on its own, as TestValidatePKColumns does
ValidatePKColumnsCall ==
    /\ updStage = "start"
    /\ updStage' = "validatedOnly"
    /\ \E describeOK \in BOOLEAN :
        updErr' = validatePKColumns(describeOK, tblCols, TableName, key)
    /\ trace' = Append(trace, "DescribeTable")
    /\ UNCHANGED <<backend, tblCols, rows, key, set, updN, issued, mgrVars, gateVars, restVars>>

\* if len(key) == 0 {...}; if len(set) == 0 {...}
UpdateRowCheckArgs ==
    /\ updStage = "start"
    /\ IF Cardinality(DOMAIN key) = 0
       THEN UpdateRowReturn(0, <<"update row: key must contain at least one column">>)
       ELSE IF Cardinality(DOMAIN set) = 0
       THEN UpdateRowReturn(0, <<"update row: set must contain at least one column">>)
       ELSE updStage' = "validate" /\ UNCHANGED <<updN, updErr>>
    /\ UNCHANGED <<backend, tblCols, rows, key, set, issued, trace, mgrVars, gateVars, restVars>>

\* err := validatePKColumns(ctx, d, schema, table, key)
UpdateRowValidate ==
    /\ updStage = "validate"
    /\ updStage' = "validated"
    /\ \E describeOK \in BOOLEAN :
        updErr' = validatePKColumns(describeOK, tblCols, TableName, key)
    /\ trace' = Append(trace, "DescribeTable")
    /\ UNCHANGED <<backend, tblCols, rows, key, set, updN, issued, mgrVars, gateVars, restVars>>

\* if err != nil { return 0, err }
UpdateRowValidated ==
    /\ updStage = "validated"
    /\ IF updErr # NilErr
       THEN UpdateRowReturn(0, updErr)
       ELSE updStage' = "exec" /\ UNCHANGED <<updN, updErr>>
    /\ UNCHANGED <<backend, tblCols, rows, key, set, issued, trace, mgrVars, gateVars, restVars>>

\* The statement is built and executed; RowsAffected; n == 0 is an error.
\* A statement naming a missing column, or breaking the primary key's
\* uniqueness, fails in the database. MySQL counts the rows found or the rows
\* changed, as the connection is set up.
UpdateRowExec ==
    /\ updStage = "exec"
    /\ \E setCols \in Orders(set), keyCols \in Orders(key) :
        issued' = Append(issued, UpdateStatement(backend, TableName, setCols, keyCols, set, key))
    /\ IF ~((DOMAIN set \cup DOMAIN key) \subseteq DOMAIN tblCols)
       THEN rows' = rows /\ UpdateRowReturn(0, <<"database error: no such column">>)
       ELSE IF ~PrimaryKeyUnique(tblCols, Updated(rows, key, set))
       THEN rows' = rows /\ UpdateRowReturn(0, <<"database error: constraint failed">>)
       ELSE /\ rows' = Updated(rows, key, set)
            /\ \E n \in RowsAffected(backend, Cardinality(Matched(rows, key)),
                                    Cardinality({r \in DOMAIN rows : rows'[r] # rows[r]})) :
                IF n = 0
                   THEN UpdateRowReturn(0, RowNotFoundErr)
                   ELSE UpdateRowReturn(n, NilErr)
    /\ trace' = Append(trace, "Exec")
    /\ UNCHANGED <<backend, tblCols, key, set, mgrVars, gateVars, restVars>>

----------------------------------------------------------------------------
(* Placeholder translation: convertPlaceholdersToSQLite / ToMySQL / ToMSSQL *)

IsDigit(c) == c \in Digits

\* Mutant: the marker's number is its first digit only.
DigitsEndFirst(s, i) == i + 1

\* (\d+) after a "$" at i: the index of the last digit of the run
DigitsEnd(s, i) ==
    LET stops == {k \in (i + 1)..Len(s) : ~IsDigit(s[k])}
    IN IF stops = {} THEN Len(s) ELSE MinOf(stops) - 1

\* dollarPlaceholder.ReplaceAllString(s, prefix ++ "${1}") when keep, and
\* dollarPlaceholder.ReplaceAllString(s, prefix) when not; \$(\d+)
RECURSIVE ReplaceDollarFrom(_, _, _, _)
ReplaceDollarFrom(s, i, prefix, keep) ==
    IF i > Len(s) THEN <<>>
    ELSE IF s[i] = "$" /\ i < Len(s) /\ IsDigit(s[i + 1])
         THEN prefix
              \o (IF keep THEN SubSeq(s, i + 1, DigitsEnd(s, i)) ELSE <<>>)
              \o ReplaceDollarFrom(s, DigitsEnd(s, i) + 1, prefix, keep)
         ELSE <<s[i]>> \o ReplaceDollarFrom(s, i + 1, prefix, keep)

convertPlaceholdersToSQLite(s) == ReplaceDollarFrom(s, 1, <<"?">>, TRUE)
convertPlaceholdersToMySQL(s) == ReplaceDollarFrom(s, 1, <<"?">>, FALSE)
convertPlaceholdersToMSSQL(s) == ReplaceDollarFrom(s, 1, <<"@", "p">>, TRUE)

\* The query text a backend's RunReadOnlyQuery sends to its database
TranslateFor(b, s) ==
    CASE b = "sqlite" -> convertPlaceholdersToSQLite(s)
      [] b = "mysql" -> convertPlaceholdersToMySQL(s)
      [] b = "sqlserver" -> convertPlaceholdersToMSSQL(s)
      [] b = "postgres" -> s

\* The number a run of digits writes
DigitValue(c) == CHOOSE n \in 0..9 : <<"0", "1", "2", "3", "4", "5", "6", "7", "8", "9">>[n + 1] = c

RECURSIVE NumberOf(_)
NumberOf(ds) ==
    IF ds = <<>> THEN 0 ELSE 10 * NumberOf(SubSeq(ds, 1, Len(ds) - 1)) + DigitValue(ds[Len(ds)])

\* The sign a backend's database reads as the start of a parameter marker
MarkerSign(b) ==
    CASE b = "postgres" -> <<"$">>
      [] b = "sqlite" -> <<"?">>
      [] b = "mysql" -> <<"?">>
      [] b = "sqlserver" -> <<"@", "p">>

\* The parameters the database binds the markers of the text to, in the
\* order of the markers, counted from position i on; next is the number an
\* unnumbered marker takes. PostgreSQL $n, SQLite ?n and SQL Server @pn bind
\* the n-th parameter; MySQL's ? and SQLite's bare ? bind the next one.
RECURSIVE BoundFrom(_, _, _, _)
BoundFrom(b, t, i, next) ==
    LET sign == MarkerSign(b)
        after == i + Len(sign)
        numbered == b # "mysql" /\ after <= Len(t) /\ IsDigit(t[after])
        last == DigitsEnd(t, after - 1)
        n == NumberOf(SubSeq(t, after, last))
    IN IF i > Len(t) THEN <<>>
       ELSE IF i + Len(sign) - 1 <= Len(t) /\ SubSeq(t, i, i + Len(sign) - 1) = sign
            THEN IF numbered
                 THEN <<n>> \o BoundFrom(b, t, last + 1, IF n >= next THEN n + 1 ELSE next)
                 ELSE IF b \in {"mysql", "sqlite"}
                      THEN <<next>> \o BoundFrom(b, t, after, next + 1)
                      ELSE BoundFrom(b, t, after, next)
            ELSE BoundFrom(b, t, i + 1, next)

\* d.db.QueryContext(ctx, query, params...): the parameter each marker binds
BoundParams(b, t) == BoundFrom(b, t, 1, 1)

\* The pieces the queries with placeholders are put together from.
MarkPieces == { <<"$">>, <<"1">>, <<"0">>, <<"?">>, <<"@", "p">>, <<"x">> }

RECURSIVE QueriesUpTo(_)
QueriesUpTo(n) ==
    IF n = 0 THEN {<<>>}
    ELSE LET shorter == QueriesUpTo(n - 1)
         IN shorter \cup {p \o s : p \in MarkPieces, s \in shorter}

PhRest ==
    /\ phBackend = "postgres"
    /\ phIn = <<>>
    /\ phOut = <<>>
    /\ phAgain = <<>>
    /\ phStage = "off"

PhInit ==
    /\ phBackend \in {"sqlite", "postgres", "mysql", "sqlserver"}
    /\ phIn \in QueriesUpTo(MaxMarks)
    /\ phOut = <<>>
    /\ phAgain = <<>>
    /\ phStage = "start"

\* query = convertPlaceholdersTo...(query) in RunReadOnlyQuery
Translate ==
    /\ phStage = "start"
    /\ phOut' = TranslateFor(phBackend, phIn)
    /\ phStage' = "translated"
    /\ UNCHANGED <<phBackend, phIn, phAgain, mgrVars, gateVars, updVars, trace, insVars, lcVars, histVars>>

\* The translation applied to its own output
TranslateAgain ==
    /\ phStage = "translated"
    /\ phAgain' = TranslateFor(phBackend, phOut)
    /\ phStage' = "again"
    /\ UNCHANGED <<phBackend, phIn, phOut, mgrVars, gateVars, updVars, trace, insVars, lcVars, histVars>>

----------------------------------------------------------------------------
(* The backends' InsertRow *)

\* An any value is the set of the one value it holds; nil and NULL hold none.
Null == {}
Some(v) == {v}
GeneratedID == MaxVal + 1
InsNames == {"id", "name", "email"}

\* The tables: the columns in some order; the column id may be the table's
\* identity column.
InsTables ==
    {t \in [cols : UNION {[1..n -> InsNames] : n \in 1..Cardinality(InsNames)},
            identity : {"", "id"}] :
        /\ \A i, j \in DOMAIN t.cols : i # j => t.cols[i] # t.cols[j]
        /\ t.identity # "" => t.identity \in Range(t.cols)}

InsRows(cols) == UNION {[S -> 1..MaxVal] : S \in SUBSET Range(cols)}

\* The database's side of a successful INSERT: the new row, the identity
\* column generated unless given, the columns not given NULL.
InsertedRow(cols, identity, row) ==
    [c \in Range(cols) |->
        IF c \in DOMAIN row THEN Some(row[c])
        ELSE IF c = identity THEN Some(GeneratedID)
        ELSE Null]

\* result.LastInsertId(): SQLite gives the rowid, which is the identity column
\* when there is one and a generated rowid otherwise; MySQL gives the
\* generated AUTO_INCREMENT value, and 0 when none was generated.
LastInsertId(b, cols, identity, row) ==
    IF b = "sqlite"
    THEN IF identity # "" /\ identity \in DOMAIN row THEN row[identity] ELSE GeneratedID
    ELSE IF identity # "" /\ identity \notin DOMAIN row THEN GeneratedID ELSE 0

\* What the INSERT hands back: Exec/Query fails or not; with RETURNING * /
\* OUTPUT INSERTED.* the row comes back unless the statement failed after
\* all, and reading it may fail; LastInsertId may fail.
InsertOutcomes(b, cols, identity, row) ==
    {o \in [execErr : BOOLEAN, hasRow : BOOLEAN, readErr : BOOLEAN, idErr : BOOLEAN,
            first : {InsertedRow(cols, identity, row)[cols[1]]},
            lastID : {LastInsertId(b, cols, identity, row)}] :
        /\ o.execErr => (o.hasRow /\ ~o.readErr /\ ~o.idErr)
        /\ b \in {"postgres", "sqlserver"} => ~o.idErr
        /\ b \in {"sqlite", "mysql"} => (o.hasRow /\ ~o.readErr)
        /\ ~o.hasRow => ~o.readErr}

InsRest ==
    /\ insBackend = "sqlite"
    /\ insCols = <<"id">>
    /\ insIdentity = ""
    /\ insRow = <<>>
    /\ insStage = "off"
    /\ insOut = <<>>
    /\ insRet = Null
    /\ insErr = NilErr
    /\ insFailed = FALSE

\* One call InsertRow(ctx, schema, table, row) on one backend and table
InsInit ==
    /\ insBackend \in {"sqlite", "postgres", "mysql", "sqlserver"}
    /\ \E t \in InsTables :
        /\ insCols = t.cols
        /\ insIdentity = t.identity
        /\ insRow \in InsRows(t.cols)
    /\ insStage = "start"
    /\ insOut = <<>>
    /\ insRet = Null
    /\ insErr = NilErr
    /\ insFailed = FALSE

InsertRowReturn(id, err) ==
    /\ insStage' = "done"
    /\ insRet' = id
    /\ insErr' = err

\* if len(row) == 0 { return nil, fmt.Errorf("insert row: no columns") }
InsertRowCheckArgs ==
    /\ insStage = "start"
    /\ IF Cardinality(DOMAIN insRow) = 0
       THEN InsertRowReturn(Null, <<"insert row: no columns">>)
       ELSE insStage' = "exec" /\ UNCHANGED <<insRet, insErr>>
    /\ UNCHANGED <<insBackend, insCols, insIdentity, insRow, insOut, insFailed,
                   mgrVars, gateVars, updVars, trace, phVars, lcVars, histVars>>

\* The INSERT is built and sent: d.db.ExecContext / d.conn.Query / d.db.QueryContext
InsertRowExec ==
    /\ insStage = "exec"
    /\ insOut' \in InsertOutcomes(insBackend, insCols, insIdentity, insRow)
    /\ insFailed' = (insOut'.execErr \/ ~insOut'.hasRow \/ insOut'.readErr \/ insOut'.idErr)
    /\ insStage' = "result"
    /\ UNCHANGED <<insBackend, insCols, insIdentity, insRow, insRet, insErr,
                   mgrVars, gateVars, updVars, trace, phVars, lcVars, histVars>>

\* PostgreSQL returnVals[0], SQL Server *(scan[0].(*any)): the first column
ReturnedID(o) == o.first

\* The result is turned into (id, err).
InsertRowResult ==
    /\ insStage = "result"
    /\ IF insOut.execErr THEN InsertRowReturn(Null, <<"database error">>)
       ELSE IF insBackend \in {"postgres", "sqlserver"}
       THEN IF ~insOut.hasRow THEN InsertRowReturn(Null, NilErr)
            ELSE IF insOut.readErr THEN InsertRowReturn(Null, <<"read error">>)
            ELSE InsertRowReturn(ReturnedID(insOut), NilErr)
       ELSE IF insOut.idErr THEN InsertRowReturn(Null, NilErr)
            ELSE IF insOut.lastID > 0 THEN InsertRowReturn(Some(insOut.lastID), NilErr)
            ELSE InsertRowReturn(Null, NilErr)
    /\ UNCHANGED <<insBackend, insCols, insIdentity, insRow, insOut, insFailed,
                   mgrVars, gateVars, updVars, trace, phVars, lcVars, histVars>>

----------------------------------------------------------------------------
(* config.Config.ConnectionInfos *)

ListedIDs == {"postgres", "sqlserver", "sqlite", "mysql"}

\* The configurations: any of the ids, each with its type and one of the URIs.
ConnectionSets ==
    UNION { [S -> [Type : SupportedTypes, uri : URIs]] : S \in SUBSET ListedIDs }

ConfigsLoaded == {c \in ConnectionSets : \A id \in DOMAIN c : c[id].Type = idToType(id)}

\* Mutant: the entry's URI is put into the info.
ConnectionInfoWithURI(id, e) == [ID |-> id, Type |-> e.uri]

\* ConnectionInfo{ID: id, Type: e.Type}
ConnectionInfoOf(id, e) == [ID |-> id, Type |-> e.Type]

LcRest ==
    /\ connections = <<>>
    /\ lcStage = "off"
    /\ lcResult = <<>>

LcInit ==
    /\ connections \in ConfigsLoaded
    /\ lcStage = "start"
    /\ lcResult = <<>>

\* for id, e := range c.connections { infos = append(infos, ...) }: the
\* entries in some iteration order
ConnectionInfos ==
    /\ lcStage = "start"
    /\ \E order \in Orders(connections) :
        lcResult' = [i \in DOMAIN order |-> ConnectionInfoOf(order[i], connections[order[i]])]
    /\ lcStage' = "listed"
    /\ UNCHANGED <<connections, mgrVars, gateVars, updVars, trace, phVars, insVars, histVars>>

----------------------------------------------------------------------------
(* Specifications *)

\* No call has been made and no instance constructed.
HistRest ==
    /\ startedWith = [p \in Procs |-> 0]
    /\ overtaken = [p \in Procs |-> FALSE]
    /\ shut = FALSE
    /\ everCached = {}
    /\ closedBy = [i \in 1..MaxInst |-> {}]
    /\ ctorCalls = [p \in Procs |-> 0]

RestRest == PhRest /\ InsRest /\ LcRest /\ HistRest

NoTrace == trace = <<>>

Init == MgrInit /\ GateRest /\ UpdRest /\ NoTrace /\ RestRest

\* The Manager's operations, the history left as it is.
Next ==
    \E p \in Procs :
        \/ \E id \in AllIDs : DriverCall(p, id) /\ UNCHANGED histVars
        \/ DriverLock1(p) /\ UNCHANGED histVars
        \/ DriverLookup(p) /\ UNCHANGED histVars
        \/ DriverConstructOk(p) /\ UNCHANGED histVars
        \/ DriverConstructFail(p) /\ UNCHANGED histVars
        \/ DriverLock2(p) /\ UNCHANGED histVars
        \/ DriverInstall(p) /\ UNCHANGED histVars
        \/ DriverCloseDup(p) /\ UNCHANGED histVars
        \/ CloseCall(p) /\ UNCHANGED histVars
        \/ CloseLock(p) /\ UNCHANGED histVars
        \/ CloseOne(p) /\ UNCHANGED histVars
        \/ CloseReturn(p) /\ UNCHANGED histVars

Spec == Init /\ [][Next]_vars

InitGate == MgrRest /\ GateInit /\ UpdRest /\ NoTrace /\ RestRest

GateNext ==
    \/ RunQueryValidate
    \/ RunQueryGate
    \/ RunQueryDriver
    \/ RunQueryExec

InitTracked == MgrRest /\ GateRest /\ UpdRest /\ NoTrace /\ RestRest

SpecTracked == InitTracked /\ [][TrackedNext]_vars

\* The steps of one goroutine inside a call, and those that take the lock.
ProcStep(p) ==
    \/ DriverLookup(p) \/ DriverConstructOk(p) \/ DriverConstructFail(p)
    \/ DriverInstall(p) \/ DriverCloseDup(p) \/ CloseOne(p) \/ CloseReturn(p)

LockStep(p) == DriverLock1(p) \/ DriverLock2(p) \/ CloseLock(p)

\* Every goroutine inside a call keeps running, constructors return, and a
\* goroutine waiting for the lock gets it once the lock stays free.
Fairness ==
    \A p \in Procs : WF_vars((ProcStep(p) \/ LockStep(p)) /\ UNCHANGED histVars)

SpecFair == InitTracked /\ [][Next]_vars /\ Fairness

SpecGate == InitGate /\ [][GateNext]_vars

InitWords == MgrRest /\ WordsInit /\ UpdRest /\ NoTrace /\ RestRest

SpecWords == InitWords /\ [][GateNext]_vars

InitUpdate == MgrRest /\ GateRest /\ UpdInit /\ NoTrace /\ RestRest

UpdateNext ==
    \/ ValidatePKColumnsCall
    \/ UpdateRowCheckArgs
    \/ UpdateRowValidate
    \/ UpdateRowValidated
    \/ UpdateRowExec

SpecUpdate == InitUpdate /\ [][UpdateNext]_vars

\* One request of the layer: a run_query request or an UpdateRow call.
InitRequest ==
    /\ MgrRest
    /\ \/ GateInit /\ UpdRest
       \/ GateRest /\ UpdInit
    /\ NoTrace
    /\ RestRest

RequestNext == GateNext \/ UpdateNext

SpecRequest == InitRequest /\ [][RequestNext]_vars

InitPlaceholders == MgrRest /\ GateRest /\ UpdRest /\ NoTrace /\ PhInit /\ InsRest /\ LcRest /\ HistRest

PlaceholdersNext == Translate \/ TranslateAgain

SpecPlaceholders == InitPlaceholders /\ [][PlaceholdersNext]_vars

InitInsert == MgrRest /\ GateRest /\ UpdRest /\ NoTrace /\ PhRest /\ InsInit /\ LcRest /\ HistRest

InsertNext == InsertRowCheckArgs \/ InsertRowExec \/ InsertRowResult

SpecInsert == InitInsert /\ [][InsertNext]_vars

InitList == MgrRest /\ GateRest /\ UpdRest /\ NoTrace /\ PhRest /\ InsRest /\ LcInit /\ HistRest

ListNext == ConnectionInfos

SpecList == InitList /\ [][ListNext]_vars

----------------------------------------------------------------------------
(* Properties of db.Manager *)

Quiescent == \A p \in Procs : pc[p] \in {"idle", "done"}

\* The goroutines that hold a constructed instance not yet installed or closed.
InFlightHolders(i) ==
    {p \in Procs : pc[p] \in {"lock2", "install", "closedup"} /\ newDriver[p] = i}

\* C1: when concurrent first-time Driver(id) calls have all returned (the
\* constructors succeeded, Manager.Close was never called), exactly one Driver
\* constructed for id is still open, it is the cache entry, and every caller
\* has received that instance.
C1_OneSharedDriver ==
    \A id \in ConfiguredIDs :
        ( /\ Quiescent
          /\ ~closedEver
          /\ id \notin ctorFailed
          /\ \E p \in Procs : pc[p] = "done" /\ connectionID[p] = id )
        => /\ Cardinality(OpenFor(id)) = 1
           /\ drivers[id] \in OpenFor(id)
           /\ \A h \in handed : h[1] = id => h[2] = drivers[id]
           /\ \A p \in Procs :
                (pc[p] = "done" /\ connectionID[p] = id)
                => (ret[p].err = NilErr /\ ret[p].d = drivers[id])

\* C1 witness: two callers raced (both constructed), a third came after, and
\* all three hold the one open instance.
C1_Witness ==
    /\ Quiescent /\ ~closedEver /\ ctorFailed = {}
    /\ \E p, q, r \in Procs :
        /\ ret[p].kind = "installed" /\ ret[q].kind = "loser" /\ ret[r].kind = "cached"
        /\ connectionID[p] = connectionID[q] /\ connectionID[q] = connectionID[r]
        /\ ret[p].d = ret[q].d /\ ret[q].d = ret[r].d
        /\ OpenFor(connectionID[p]) = {ret[p].d}

\* C2 as stated: in every reachable state each identifier has at most one
\* instance that has been constructed and not yet closed.
C2_AtMostOneOpen ==
    \A id \in ConfiguredIDs : Cardinality(OpenFor(id)) <= 1

\* C2 as amended: each identifier has at most one open instance apart from
\* the not-yet-installed duplicates of Driver calls still in flight: every open
\* instance is the cache entry or the newDriver of a call between its
\* constructor and its install/close, and once no such call is in flight at
\* most one instance per identifier is open.
C2_AtMostOneOpenBesidesInFlight ==
    \A id \in ConfiguredIDs :
        /\ \A i \in OpenFor(id) : drivers[id] = i \/ InFlightHolders(i) # {}
        /\ drivers[id] # 0 => inst[drivers[id]].conn = id
        /\ (\A p \in Procs : pc[p] \notin {"lock2", "install", "closedup"})
             => Cardinality(OpenFor(id)) <= 1

\* C2 witness: two open instances of one identifier, one cached and one the
\* duplicate of a call still in flight.
C2_Witness ==
    \E id \in ConfiguredIDs : \E i, j \in OpenFor(id) :
        /\ i # j
        /\ drivers[id] = i
        /\ InFlightHolders(j) # {}

\* C3: a Driver call that reaches the install step after another call's
\* install finds that entry under the lock, never overwrites it, closes its
\* own duplicate before it returns and returns the cached instance; when all
\* Driver calls have returned every constructed Driver is the cache entry or
\* closed.
C3_LoserState ==
    /\ \A p \in Procs :
        /\ (pc[p] = "done" /\ ret[p].kind = "loser")
            => /\ newDriver[p] # 0
               /\ inst[newDriver[p]].closes >= 1
               /\ ret[p].d # 0 /\ ret[p].d # newDriver[p]
               /\ inst[ret[p].d].conn = connectionID[p]
               /\ ret[p].err = NilErr
        /\ (pc[p] = "closedup")
            => /\ ret[p].d # newDriver[p]
               /\ mu # p
        /\ \A q \in Procs :
            ( /\ pc[p] = "install" /\ ~closedEver
              /\ pc[q] = "done" /\ ret[q].kind = "installed"
              /\ connectionID[q] = connectionID[p] )
            => (InstallFindsExisting(p) /\ drivers[connectionID[p]] = ret[q].d)
    /\ Quiescent =>
         \A i \in Constructed : drivers[inst[i].conn] = i \/ inst[i].closes >= 1

C3_NeverOverwrites ==
    \A id \in ConfiguredIDs :
        drivers[id] # 0 =>
            \/ drivers'[id] = drivers[id]
            \/ drivers'[id] = 0 /\ \E p \in Procs : pc[p] = "cl_loop" /\ mu = p

C4_NoLockDuringConstruct ==
    /\ \A p \in Procs : pc[p] \in {"ctor", "lock2", "closedup"} => mu # p
    /\ mu # NoHolder => pc[mu] \in {"read", "install", "cl_loop"}

\* C4 witness: while one goroutine is still inside the constructor for one
\* identifier, a Driver call for a different identifier has constructed,
\* installed and returned, and a lookup of that cached identifier has
\* returned too.
C4_Witness ==
    \E p, q, r \in Procs :
        /\ pc[p] = "ctor"
        /\ pc[q] = "done" /\ ret[q].kind = "installed"
        /\ pc[r] = "done" /\ ret[r].kind = "cached"
        /\ connectionID[p] # connectionID[q]
        /\ connectionID[r] = connectionID[q]

\* C5: the error returned after a failed construction is made of the
\* connection id and the backend type only; it holds no URI and nothing of
\* the raw driver error, whatever the configured URI is.
SanitizedMessage(r, id, typ) ==
    IF r = 1
    THEN <<"failed to connect to ", id, " (", typ, "); verify the connection URI is correct">>
    ELSE <<"failed to connect to ", id, " (", typ, "); check server logs for details">>

C5_SanitizedError ==
    \A p \in Procs :
        /\ (pc[p] = "done" /\ ret[p].kind = "connfail")
            => /\ ret[p].d = 0
               /\ ret[p].err = SanitizedMessage(rev, connectionID[p], ConfigType(connectionID[p]))
        /\ \A u \in URIs : u \notin Range(ret[p].err)

\* C5 witness: a constructor failed with a raw error that embeds the URI (it
\* is in the log) and the caller got the sanitized error.
C5_Witness ==
    \E p \in Procs :
        /\ pc[p] = "done" /\ ret[p].kind = "connfail"
        /\ \E l \in log : cfgURI[connectionID[p]] \in Range(l)

\* C6: neither the connection URI nor a raw driver error is ever written to
\* the process log.
C6_NoCredentialsInLog ==
    \A l \in log :
        /\ \A u \in URIs : u \notin Range(l)
        /\ \A typ \in SupportedTypes, u \in URIs, e \in BOOLEAN :
            \A k \in 1..Len(l) : SubSeq(l, k, Len(l)) # RawCtorErr(typ, u, e)

\* C15: Manager.Close returns nil with the cache empty; every entry it
\* takes out of the cache is closed in the same step, so a Driver that was
\* handed out is still the cache entry or closed; the returning step, which
\* is all that a Close on an empty cache does, closes nothing.
C15_CloseState ==
    /\ \A p \in Procs :
        (pc[p] = "done" /\ ret[p].kind = "closed") => (ret[p].err = NilErr /\ ret[p].d = 0)
    /\ \A h \in handed : drivers[h[1]] = h[2] \/ inst[h[2]].closes >= 1

C15_CloseStep ==
    /\ \A id \in ConfiguredIDs :
        (drivers[id] # 0 /\ drivers'[id] = 0)
            => inst'[drivers[id]].closes = inst[drivers[id]].closes + 1
    /\ \A p \in Procs :
        (pc[p] = "cl_loop" /\ pc'[p] = "done")
            => /\ \A id \in ConfiguredIDs : drivers[id] = 0 /\ drivers'[id] = 0
               /\ inst' = inst
               /\ ret'[p].err = NilErr

C15_CloseEmptiesCache == [](C15_CloseState) /\ [][C15_CloseStep]_vars

\* C15 witness: a Driver was installed, then two Close calls have returned
\* nil; the Driver is closed once and the cache is empty.
C15_Witness ==
    \E p, q, r \in Procs :
        /\ p # q /\ q # r /\ p # r
        /\ Quiescent
        /\ ret[p].kind = "installed"
        /\ ret[q].kind = "closed" /\ ret[q].err = NilErr
        /\ ret[r].kind = "closed" /\ ret[r].err = NilErr
        /\ inst[ret[p].d].closes = 1
        /\ \A id \in ConfiguredIDs : drivers[id] = 0

\* C16: a Driver call for an identifier without configuration entry returns
\* UnknownConnection at once: it never gets to the lock or a constructor,
\* and its step changes neither the cache nor any Driver instance.
C16_UnknownState ==
    \A p \in Procs :
        (connectionID[p] # "" /\ connectionID[p] \notin ConfiguredIDs)
        => /\ pc[p] = "done"
           /\ ret[p] = [kind |-> "unknown", d |-> 0, err |-> UnknownConnectionErr(connectionID[p])]
           /\ newDriver[p] = 0
           /\ mu # p

C16_UnknownStep ==
    (calls' = calls + 1 /\ \A q \in Procs : pc'[q] = pc[q] \/ pc'[q] \notin {"lock1", "cl_lock"})
    => (drivers' = drivers /\ inst' = inst /\ mu' = mu)

C16_UnknownConnection == [](C16_UnknownState) /\ [][C16_UnknownStep]_vars

\* C16 witness: with a Driver in the cache, a call for an unconfigured
\* identifier has failed with UnknownConnection and the cache entry is there.
C16_Witness ==
    \E p, q \in Procs :
        /\ pc[p] = "done" /\ connectionID[p] = "nonexistent"
        /\ ret[p].err = UnknownConnectionErr("nonexistent")
        /\ pc[q] = "done" /\ ret[q].kind = "installed"
        /\ drivers[connectionID[q]] = ret[q].d
        /\ IsOpen(ret[q].d)

\* C20: every call of the Manager during which a backend call failed (a
\* constructor, a Driver.Close) returns an error.
C20_NoFailureSwallowed ==
    \A p \in Procs : (pc[p] = "done" /\ failed[p]) => ret[p].err # NilErr

----------------------------------------------------------------------------
(* Properties of the read-only gate *)

\* The maximal runs of word characters of t, as <<first, last>> index pairs.
WordRuns(t) ==
    {r \in (1..Len(t)) \X (1..Len(t)) :
        /\ r[1] <= r[2]
        /\ \A k \in r[1]..r[2] : IsWordChar(t[k])
        /\ ~IsWordAt(t, r[1] - 1)
        /\ ~IsWordAt(t, r[2] + 1)}

\* The whole words of t that are a forbidden keyword in some letter case.
ForbiddenRuns(t) ==
    {r \in WordRuns(t) : ToUpper(SubSeq(t, r[1], r[2])) \in Range(forbiddenSQLWords)}

\* What is left of s for a database: a lexer in the modes code, string
\* literal, line comment and block comment. A comment opens only from code;
\* a line comment ends at the newline, a block comment at the next "*/", a
\* string literal at the next quote. A comment counts as one blank.
RECURSIVE LexFrom(_, _, _)
LexFrom(s, i, mode) ==
    IF i > Len(s) THEN <<>>
    ELSE CASE mode = "code" ->
                IF s[i] = "'" THEN <<s[i]>> \o LexFrom(s, i + 1, "string")
                ELSE IF i < Len(s) /\ s[i] = "-" /\ s[i + 1] = "-"
                     THEN <<" ">> \o LexFrom(s, i + 2, "line")
                ELSE IF i < Len(s) /\ s[i] = "/" /\ s[i + 1] = "*"
                     THEN <<" ">> \o LexFrom(s, i + 2, "block")
                ELSE <<s[i]>> \o LexFrom(s, i + 1, "code")
           [] mode = "string" ->
                <<"'">> \o LexFrom(s, i + 1, IF s[i] = "'" THEN "code" ELSE "string")
           [] mode = "line" ->
                IF s[i] = "\n" THEN <<s[i]>> \o LexFrom(s, i + 1, "code")
                ELSE LexFrom(s, i + 1, "line")
           [] mode = "block" ->
                IF i < Len(s) /\ s[i] = "*" /\ s[i + 1] = "/"
                THEN LexFrom(s, i + 2, "code")
                ELSE LexFrom(s, i + 1, "block")

DatabaseSees(s) == LexFrom(s, 1, "code")

\* C7: no SQL text that reaches RunReadOnlyQuery has a forbidden keyword as a
\* word outside the comments, as the database lexes comments and string
\* literals.
C7_NoWriteReachesDatabase ==
    \A q \in executed : ForbiddenRuns(DatabaseSees(q)) = {}

\* The characters of the line comments of s: from a "--" up to the newline.
LineCommentChars(s) ==
    {k \in 1..Len(s) :
        \E i \in 1..k :
            /\ i < Len(s) /\ s[i] = "-" /\ s[i + 1] = "-"
            /\ \A m \in i..k : s[m] # "\n"}

\* The block comments of s from position i on, as <<first, last>> pairs: the
\* first "/*" with the first "*/" after it, then on from there.
RECURSIVE BlockComments(_, _)
BlockComments(s, i) ==
    LET opens == {a \in i..(Len(s) - 1) : s[a] = "/" /\ s[a + 1] = "*"}
    IN IF opens = {} THEN {}
       ELSE LET a == MinOf(opens)
                closes == {b \in (a + 2)..(Len(s) - 1) : s[b] = "*" /\ s[b + 1] = "/"}
            IN IF closes = {} THEN {}
               ELSE {<<a, MinOf(closes) + 1>>} \cup BlockComments(s, MinOf(closes) + 2)

BlockCommentChars(s) ==
    {k \in 1..Len(s) : \E c \in BlockComments(s, 1) : c[1] <= k /\ k <= c[2]}

BlockCommentStarts(s) == {c[1] : c \in BlockComments(s, 1)}

LineCommentStarts(s) ==
    {k \in LineCommentChars(s) : k - 1 \notin LineCommentChars(s)}

\* s with each comment (its characters, its first character) given by fill.
RECURSIVE WithComments(_, _, _, _, _)
WithComments(s, chars, starts, fill, i) ==
    IF i > Len(s) THEN <<>>
    ELSE (IF i \in starts THEN fill
          ELSE IF i \in chars THEN <<>>
          ELSE <<s[i]>>) \o WithComments(s, chars, starts, fill, i + 1)

RECURSIVE DropLeadingSpace(_)
DropLeadingSpace(s) ==
    IF s # <<>> /\ IsSpace(Head(s)) THEN DropLeadingSpace(Tail(s)) ELSE s

RECURSIVE DropTrailingSpace(_)
DropTrailingSpace(s) ==
    IF s # <<>> /\ IsSpace(s[Len(s)])
    THEN DropTrailingSpace(SubSeq(s, 1, Len(s) - 1))
    ELSE s

\* The text the keywords are looked for in: the line comments go, then the
\* block comments, then the whitespace at both ends; fill is what a comment
\* leaves behind.
Remaining(s, fill) ==
    LET noLine == WithComments(s, LineCommentChars(s), LineCommentStarts(s), fill, 1)
        noBlock == WithComments(noLine, BlockCommentChars(noLine),
                                BlockCommentStarts(noLine), fill, 1)
    IN DropTrailingSpace(DropLeadingSpace(noBlock))

\* The verdict on s: EmptyStatement when nothing remains, NotReadOnly naming
\* the first forbidden whole word, success otherwise.
Verdict(s, fill) ==
    LET t == Remaining(s, fill)
        runs == ForbiddenRuns(t)
    IN IF t = <<>> THEN EmptyStatementErr
       ELSE IF runs = {} THEN NilErr
       ELSE LET r == CHOOSE x \in runs : \A y \in runs : x[1] <= y[1]
            IN NotReadOnlyErr(ToUpper(SubSeq(t, r[1], r[2])))

\* C8 as stated: ValidateReadOnlySQL gives the verdict on the text with its
\* comments removed.
C8_VerdictCommentsRemoved ==
    rqStage = "validated" => rqErr = Verdict(rqSQL, <<>>)

\* C8 as amended: ValidateReadOnlySQL gives the verdict on the text with each
\* line comment, then each block comment, replaced by one space and the
\* whitespace at both ends trimmed: EmptyStatement when nothing remains,
\* NotReadOnly naming the first forbidden whole word (any letter case),
\* success otherwise.
C8_VerdictCommentsBlanked ==
    rqStage = "validated" => rqErr = Verdict(rqSQL, <<" ">>)

\* C8 witness: a comment between a name and a keyword; the keyword is a
\* whole word once the comment is a space, and the statement is rejected.
C8_Witness ==
    /\ rqStage = "validated"
    /\ rqSQL = <<"x", "/", "*", "*", "/", "D", "r", "o", "p">>
    /\ rqErr = NotReadOnlyErr(<<"D", "R", "O", "P">>)

----------------------------------------------------------------------------
(* Properties of the primary-key check *)

PKNames == {c \in DOMAIN tblCols : tblCols[c]}

\* C9: when DescribeTable has answered, validatePKColumns succeeds if and
\* only if the table has at least one primary-key column and the set of the
\* key's column names equals the set of the primary-key column names.
C9_SuccessIffSameNames ==
    (updStage \in {"validated", "validatedOnly"} /\ updErr # DescribeFailedErr)
        => (updErr = NilErr <=> (PKNames # {} /\ DOMAIN key = PKNames))

\* C10: on a table with a primary key, UpdateRow with a non-empty set and a
\* key that names a column outside the primary key fails with KeyMismatch
\* (DescribeTable having answered), issues no UPDATE statement and leaves
\* every row as it was.
C10_NonPKKeyIsRefused ==
    ( /\ updStage = "done"
      /\ DOMAIN set # {}
      /\ PKNames # {}
      /\ \E c \in DOMAIN key : c \notin PKNames
      /\ updErr # DescribeFailedErr )
    => /\ updErr = KeyMismatchErr(SortStrings(DOMAIN key), SortStrings(PKNames))
       /\ issued = <<>>
       /\ rows = InitialRows(tblCols)

----------------------------------------------------------------------------
(* Properties of UpdateRow *)

\* The rows of the table before the call whose values equal the key map.
RowsWithKey == Matched(InitialRows(tblCols), key)

\* The call has returned and names only columns the table has.
UpdateReturned ==
    /\ updStage = "done"
    /\ DOMAIN set # {}
    /\ DOMAIN set \subseteq DOMAIN tblCols

\* C11: a successful UpdateRow has changed exactly one row, the one whose
\* primary-key values equal the key map, has left every other row as it
\* was, and reports one row.
C11_SuccessUpdatesOneRow ==
    (updStage = "done" /\ updErr = NilErr)
    => LET before == InitialRows(tblCols)
       IN /\ PKNames # {} /\ PKNames \subseteq DOMAIN key
          /\ \E r \in DOMAIN before :
                /\ \A c \in PKNames : before[r][c] = key[c]
                /\ \A r2 \in DOMAIN before \ {r} : rows[r2] = before[r2]
          /\ updN = 1

\* C12: on every backend, with a key naming exactly the primary-key columns
\* (and a set the database accepts), UpdateRow returns 1 and no error when a
\* row with the key's values exists and RowNotFound when none does.
C12_OneOrRowNotFound ==
    ( /\ UpdateReturned
      /\ PKNames # {} /\ DOMAIN key = PKNames
      /\ PrimaryKeyUnique(tblCols, Updated(InitialRows(tblCols), key, set))
      /\ updErr # DescribeFailedErr )
    => IF RowsWithKey # {}
       THEN updN = 1 /\ updErr = NilErr
       ELSE updN = 0 /\ updErr = RowNotFoundErr

\* The set map gives every column the value the keyed row already has.
IsNoop ==
    /\ RowsWithKey # {}
    /\ \A r \in RowsWithKey : \A c \in DOMAIN set : InitialRows(tblCols)[r][c] = set[c]

----------------------------------------------------------------------------
(* Order of validation and execution *)

IsPrefix(s, t) == Len(s) <= Len(t) /\ \A i \in 1..Len(s) : s[i] = t[i]

\* C14: a run_query request calls ValidateReadOnlySQL, then Manager.Driver,
\* then RunReadOnlyQuery, and after a failed gate neither of the two; an
\* UpdateRow call looks the table up (DescribeTable) before it executes the
\* UPDATE, and after a failed key check it has sent no statement, executed
\* nothing and the rows are as before.
C14_ValidationFirst ==
    /\ rqStage # "off" =>
        /\ IsPrefix(trace, <<"ValidateReadOnlySQL", "Manager.Driver", "RunReadOnlyQuery">>)
        /\ executed # {} => Len(trace) = 3
        /\ (rqStage = "done" /\ ValidateReadOnlySQL(rqSQL) # NilErr) =>
              /\ trace = <<"ValidateReadOnlySQL">>
              /\ executed = {}
              /\ rqErr = ValidateReadOnlySQL(rqSQL)
    /\ updStage # "off" =>
        /\ IsPrefix(trace, <<"DescribeTable", "Exec">>)
        /\ issued # <<>> => trace = <<"DescribeTable", "Exec">>
        /\ (updStage = "done" /\ validatePKColumns(TRUE, tblCols, TableName, key) # NilErr) =>
              /\ IsPrefix(trace, <<"DescribeTable">>)
              /\ issued = <<>>
              /\ rows = InitialRows(tblCols)
              /\ updErr # NilErr

\* C14 witness, run_query: a statement refused by the gate, nothing else called.
C14_Witness ==
    /\ rqStage = "done"
    /\ rqSQL = <<"D", "r", "o", "p">>
    /\ rqErr = NotReadOnlyErr(<<"D", "R", "O", "P">>)
    /\ trace = <<"ValidateReadOnlySQL">>

----------------------------------------------------------------------------
(* Properties of the placeholder translation *)

\* The markers of s: the positions of a "$" with a digit after it.
MarkerStarts(s) == {i \in 1..(Len(s) - 1) : s[i] = "$" /\ IsDigit(s[i + 1])}

\* The digits of the markers of s: the positions joined to a marker's "$" by
\* digits only.
MarkerDigits(s) ==
    {k \in 1..Len(s) :
        \E i \in MarkerStarts(s) : i < k /\ \A m \in (i + 1)..k : IsDigit(s[m])}

RECURSIVE Flatten(_)
Flatten(parts) == IF parts = <<>> THEN <<>> ELSE Head(parts) \o Flatten(Tail(parts))

\* s with "$" of every marker replaced by mark and its digits kept or not;
\* every other character stays.
Rewritten(s, mark, keep) ==
    Flatten([k \in 1..Len(s) |->
                IF k \in MarkerStarts(s) THEN mark
                ELSE IF k \in MarkerDigits(s) THEN (IF keep THEN <<s[k]>> ELSE <<>>)
                ELSE <<s[k]>>])

CountOf(c, s) == Cardinality({k \in 1..Len(s) : s[k] = c})

\* C17: the translation rewrites each $<digits> marker, and nothing else, to
\* ?<digits> for SQLite, @p<digits> for SQL Server, one ? for MySQL, and
\* nothing for PostgreSQL; translating the output again gives the output.
C17_PlaceholderTranslation ==
    /\ phStage \in {"translated", "again"} =>
        /\ phBackend = "sqlite" => phOut = Rewritten(phIn, <<"?">>, TRUE)
        /\ phBackend = "sqlserver" => phOut = Rewritten(phIn, <<"@", "p">>, TRUE)
        /\ phBackend = "mysql" =>
              /\ phOut = Rewritten(phIn, <<"?">>, FALSE)
              /\ CountOf("?", phOut) = CountOf("?", phIn) + Cardinality(MarkerStarts(phIn))
        /\ phBackend = "postgres" => phOut = phIn
    /\ phStage = "again" => phAgain = phOut

\* C17 witness: "$10?" on MySQL: the marker $10 becomes one question mark,
\* the question mark that was there stays, and the second translation
\* changes nothing.
C17_Witness ==
    /\ phStage = "again"
    /\ phBackend = "mysql"
    /\ phIn = <<"$", "1", "0", "?">>
    /\ phOut = <<"?", "?">>
    /\ phAgain = phOut

----------------------------------------------------------------------------
(* Properties of InsertRow and of the connection listing *)

\* C18: when every database call of an InsertRow succeeded (the row not
\* giving the identity column itself), InsertRow returns the generated
\* identity value if the table has an identity column, and nil if it has
\* none, on every backend.
C18_ReturnsIdentityOrNull ==
    ( /\ insStage = "done"
      /\ insErr = NilErr
      /\ ~insFailed
      /\ insIdentity \notin DOMAIN insRow )
    => insRet = (IF insIdentity # "" THEN Some(GeneratedID) ELSE Null)

\* C19: the listing holds, in some order, one entry per configured
\* connection made of its id and its type, and no field of it is a URI.
C19_ListingHidesURIs ==
    lcStage = "listed"
    => /\ Len(lcResult) = Cardinality(DOMAIN connections)
       /\ Range(lcResult) = {[ID |-> id, Type |-> idToType(id)] : id \in DOMAIN connections}
       /\ \A i \in DOMAIN lcResult :
            /\ DOMAIN lcResult[i] = {"ID", "Type"}
            /\ lcResult[i].ID \notin URIs
            /\ lcResult[i].Type \notin URIs

\* C19 witness: two connections with different URIs are listed by id and type.
C19_Witness ==
    /\ lcStage = "listed"
    /\ DOMAIN connections = {"postgres", "sqlite"}
    /\ connections["postgres"].uri # connections["sqlite"].uri
    /\ lcResult = << [ID |-> "sqlite", Type |-> "sqlite"], [ID |-> "postgres", Type |-> "postgres"] >>

----------------------------------------------------------------------------
(* Tables without a primary key *)

\* C21: when DescribeTable has reported the columns of a table and none of
\* them is a primary-key column (the table without columns included),
\* UpdateRow and validatePKColumns fail with NoPrimaryKey whatever the key
\* map names; DescribeTable is the only call made, no UPDATE is issued and
\* the rows are as before.
C21_NoPrimaryKeyFirst ==
    ( /\ updStage \in {"done", "validatedOnly"}
      /\ PKNames = {}
      /\ trace # <<>>
      /\ updErr # DescribeFailedErr )
    => /\ updErr = NoPrimaryKeyErr(TableName)
       /\ trace = <<"DescribeTable">>
       /\ issued = <<>>
       /\ rows = InitialRows(tblCols)
       /\ updN = 0

\* C21 witness: UpdateRow on the table without columns, with a key naming a
\* and b, has returned NoPrimaryKey.
C21_Witness ==
    /\ updStage = "done"
    /\ tblCols = NoColumns
    /\ DOMAIN key = {ColA, ColB}
    /\ DOMAIN set = {ColV}
    /\ updErr = NoPrimaryKeyErr(TableName)
    /\ trace = <<"DescribeTable">>

----------------------------------------------------------------------------
(* Placeholders and parameters of the UPDATE statement *)

\* The parameter a placeholder binds: its number, or for MySQL's bare "?"
\* its position among the markers of the statement.
BoundParam(st, clause, i) ==
    LET ph == st[clause][i][2]
        position == IF clause = "sets" THEN i ELSE Len(st.sets) + i
    IN IF Len(ph) = 2 THEN st.params[ph[2]] ELSE st.params[position]

\* C22: in every UPDATE statement UpdateRow has sent, the SET clause names
\* each column of set once and the WHERE clause each column of key once, the
\* k SET columns carry the placeholders 1..k and the m key columns k+1..k+m
\* (MySQL: bare markers), there are k+m parameters, and every placeholder
\* binds the value its own column has in set or key.
C22_PlaceholdersBindOwnValues ==
    \A n \in DOMAIN issued :
        LET st == issued[n]
            k == Len(st.sets)
            m == Len(st.wheres)
        IN /\ k = Cardinality(DOMAIN set) /\ {st.sets[i][1] : i \in 1..k} = DOMAIN set
           /\ m = Cardinality(DOMAIN key) /\ {st.wheres[i][1] : i \in 1..m} = DOMAIN key
           /\ Len(st.params) = k + m
           /\ \A i \in 1..k :
                /\ backend # "mysql" => st.sets[i][2][2] = i
                /\ backend = "mysql" => st.sets[i][2] = <<"?">>
                /\ BoundParam(st, "sets", i) = set[st.sets[i][1]]
           /\ \A i \in 1..m :
                /\ backend # "mysql" => st.wheres[i][2][2] = k + i
                /\ backend = "mysql" => st.wheres[i][2] = <<"?">>
                /\ BoundParam(st, "wheres", i) = key[st.wheres[i][1]]

\* C22 witness: PostgreSQL, two SET columns and two key columns with
\* different values, the maps iterated v, a and b, a.
C22_Witness ==
    /\ backend = "postgres"
    /\ Len(issued) = 1
    /\ issued[1].sets = << <<ColV, <<"$", 1>> >>, <<ColA, <<"$", 2>> >> >>
    /\ issued[1].wheres = << <<ColB, <<"$", 3>> >>, <<ColA, <<"$", 4>> >> >>
    /\ issued[1].params = <<1, 0, 1, 0>>

----------------------------------------------------------------------------
(* Whole-word matching of the forbidden keywords *)

\* The characters of an identifier: letters, digits and the underscore.
IsIdentChar(c) == c \in Range(LowerLetters) \cup Range(UpperLetters) \cup Digits \cup {"_"}

\* The keyword w stands in s at position i, in some letter case.
OccursAt(s, i, w) ==
    /\ i >= 1 /\ i + Len(w) - 1 <= Len(s)
    /\ ToUpper(SubSeq(s, i, i + Len(w) - 1)) = w

\* The occurrence of w at i is a word of its own: no identifier character
\* stands right before it or right after it.
StandsAlone(s, i, w) ==
    /\ OccursAt(s, i, w)
    /\ (i = 1 \/ ~IsIdentChar(s[i - 1]))
    /\ (i + Len(w) > Len(s) \/ ~IsIdentChar(s[i + Len(w)]))

KeywordsAlone(s) ==
    {w \in Range(forbiddenSQLWords) : \E i \in 1..Len(s) : StandsAlone(s, i, w)}

IsBlank(s) == \A i \in 1..Len(s) : IsSpace(s[i])

\* C23: on a text without comments, the gate refuses with NotReadOnly,
\* naming a keyword, exactly when some forbidden keyword stands in the text as
\* a word of its own, be it between quotes; a text whose keywords are all
\* part of longer identifiers is accepted and is what the Driver is given.
C23_WholeWordsOnly ==
    /\ (rqStage = "validated" /\ ~IsBlank(rqSQL)) =>
          IF KeywordsAlone(rqSQL) = {}
          THEN rqErr = NilErr
          ELSE \E w \in KeywordsAlone(rqSQL) : rqErr = NotReadOnlyErr(w)
    /\ \A t \in executed : KeywordsAlone(t) = {}

\* C23 witness: Drop_1exec is an identifier, and the text has been run.
C23_Witness ==
    /\ rqStage = "done"
    /\ rqSQL = <<"D", "r", "o", "p", "_", "1", "e", "x", "e", "c">>
    /\ rqErr = NilErr
    /\ executed = {rqSQL}

\* C23 witness: a keyword between quotes is refused.
C23_WitnessQuoted ==
    /\ rqStage = "done"
    /\ rqSQL = <<"x", "\"", "e", "x", "e", "c", "\"">>
    /\ rqErr = NotReadOnlyErr(<<"E", "X", "E", "C">>)
    /\ executed = {}

----------------------------------------------------------------------------
(* The cache between an install and the next Close *)

\* C24 as stated: a Driver call that started while the cache held an instance
\* for its id, no Close running, has returned that instance from the cache.
C24_CachedAtStartIsReturned ==
    \A p \in Procs :
        (pc[p] = "done" /\ startedWith[p] # 0)
        => (ret[p].kind = "cached" /\ ret[p].d = startedWith[p])

\* C24 amended: a Driver call that started while the cache held an instance
\* for its id, and during which no Close call has started, constructs
\* nothing, finds the cache entry as it was and returns that instance.
C24_CachedUntilCloseStarts ==
    \A p \in Procs :
        (startedWith[p] # 0 /\ ~overtaken[p] /\ pc[p] # "idle")
        => /\ newDriver[p] = 0
           /\ IF pc[p] = "done"
              THEN ret[p].kind = "cached" /\ ret[p].d = startedWith[p] /\ ret[p].err = NilErr
              ELSE /\ pc[p] \in {"lock1", "read"}
                   /\ drivers[connectionID[p]] = startedWith[p]

\* C24 witness: one call installed the instance, a later call found it in
\* the cache and returned it, no Close having started.
C24_Witness ==
    \E p, q \in Procs :
        /\ p # q
        /\ pc[q] = "done" /\ ret[q].kind = "installed"
        /\ pc[p] = "done" /\ ret[p].kind = "cached"
        /\ startedWith[p] = ret[q].d /\ ret[p].d = ret[q].d
        /\ ~overtaken[p] /\ ~closedEver
        /\ Cardinality(Constructed) = 1

----------------------------------------------------------------------------
(* Failed constructions *)

C25_State ==
    \A p \in Procs :
        /\ ctorCalls[p] <= 1
        /\ (pc[p] = "done" /\ ret[p].kind = "connfail")
            => (ret[p].err # NilErr /\ ret[p].d = 0 /\ newDriver[p] = 0 /\ ctorCalls[p] = 1)

\* A constructor of p's call has failed in this step.
CtorFailsFor(p) == pc[p] = "ctor" /\ ~failed[p] /\ failed'[p]

C25_Step ==
    \A p \in Procs :
        /\ CtorFailsFor(p)
            => /\ pc'[p] = "done" /\ ret'[p].err # NilErr
               /\ drivers' = drivers /\ inst' = inst
        /\ (pc[p] = "read" /\ pc'[p] # "read")
            => IF drivers[connectionID[p]] = 0
               THEN pc'[p] = "ctor"
               ELSE pc'[p] = "done" /\ ret'[p].d = drivers[connectionID[p]]

\* C25: a Driver call invokes a backend constructor at most once; a failed
\* construction ends the call at once with an error and changes neither the
\* cache nor the instances; a call that finds no cache entry goes on to
\* construct, whether or not a construction for the id has failed before.
C25_NoRetryNoNegativeCache == [](C25_State) /\ [][C25_Step]_vars

\* C25 witness: one goroutine alone; its first Driver call for the id failed
\* in the constructor, its second has constructed and installed an instance.
C25_Witness ==
    \E p \in Procs :
        /\ \A q \in Procs \ {p} : pc[q] = "idle"
        /\ calls = 2
        /\ connectionID[p] \in ctorFailed
        /\ pc[p] = "done" /\ ret[p].kind = "installed"
        /\ drivers[connectionID[p]] = ret[p].d
        /\ ctorCalls[p] = 1

----------------------------------------------------------------------------
(* Who closes a Driver *)

\* C26: the Manager has called Close on every instance at most once: in
\* Manager.Close on an instance that was in the cache, or after a lost
\* install race on an instance that never was.
C26_ClosedOnceByOwner ==
    \A i \in 1..MaxInst :
        /\ inst[i].closes <= 1
        /\ Cardinality(closedBy[i]) = inst[i].closes
        /\ "Close" \in closedBy[i] => i \in everCached
        /\ "loser" \in closedBy[i] => i \notin everCached
        /\ inst[i].closes = 1 => \A id \in DOMAIN drivers : drivers[id] # i

\* C26 witness: two calls raced, the loser closed its duplicate, and a
\* Close has then closed the cached instance.
C26_Witness ==
    \E i, j \in 1..MaxInst :
        /\ closedBy[i] = {"Close"} /\ i \in everCached
        /\ closedBy[j] = {"loser"} /\ j \notin everCached
        /\ inst[i].closes = 1 /\ inst[j].closes = 1
        /\ inst[i].conn = inst[j].conn

----------------------------------------------------------------------------
(* Driver and Close running together *)

\* p's Driver call returns an instance in this step.
ReturnsDriver(p) ==
    /\ pc[p] # "done" /\ pc'[p] = "done"
    /\ ret'[p].err = NilErr /\ ret'[p].d # 0

\* C27: the instance a Driver call returns has not been closed at the
\* moment the call returns it.
C27_ReturnedDriverIsOpen ==
    [][\A p \in Procs : ReturnsDriver(p) => inst'[ret'[p].d].closes = 0]_vars

\* C28: when a Close has returned, no Driver call has started since, and no
\* call is in flight any more, no instance the Manager has constructed is
\* open.
C28_NothingOpenAfterClose ==
    (shut /\ \A p \in Procs : ~InFlight(p))
    => \A i \in 1..MaxInst : ~IsOpen(i)

----------------------------------------------------------------------------
(* The Manager's lock *)

\* The lock is free or held by a goroutine inside its critical section.
LockHeldInsideCall ==
    mu # NoHolder => pc[mu] \in {"read", "install", "cl_loop"}

\* C29: the lock is never held by a goroutine that is outside a call or has
\* returned or runs outside its critical sections, and under fair scheduling
\* every Driver and Close call that has started returns.
C29_LockReleasedAndCallsReturn ==
    /\ [](LockHeldInsideCall)
    /\ \A p \in Procs : (InFlight(p) ~> pc[p] = "done")

\* C29 witness: a call has returned through the early return on a
\* duplicate, a Close has returned as well, and the lock is free.
C29_Witness ==
    \E p, q \in Procs :
        /\ pc[p] = "done" /\ ret[p].kind = "loser"
        /\ pc[q] = "done" /\ ret[q].kind = "closed"
        /\ mu = NoHolder

----------------------------------------------------------------------------
(* Parameter binding of RunReadOnlyQuery *)

\* The numbers of the $n markers of s, in the order of the markers.
RECURSIVE MarkerNumbersFrom(_, _)
MarkerNumbersFrom(s, i) ==
    IF i > Len(s) THEN <<>>
    ELSE IF i \in MarkerStarts(s)
         THEN <<NumberOf(SubSeq(s, i + 1, DigitsEnd(s, i)))>>
                \o MarkerNumbersFrom(s, DigitsEnd(s, i) + 1)
         ELSE MarkerNumbersFrom(s, i + 1)

\* The text writes its parameters as $n markers only, and a parameter list
\* as long as the number of its markers has an element for each of them.
CanonicalQuery(s) ==
    /\ \A k \in 1..Len(s) : s[k] \notin {"?", "@"}
    /\ \A k \in 1..Len(MarkerNumbersFrom(s, 1)) :
          MarkerNumbersFrom(s, 1)[k] \in 1..Len(MarkerNumbersFrom(s, 1))

\* C30: on every backend, the query a RunReadOnlyQuery sends binds each
\* marker to the parameter with the number the marker has in the caller's
\* text, markers out of order or repeated included.
C30_SameBindingEverywhere ==
    (phStage \in {"translated", "again"} /\ CanonicalQuery(phIn))
    => BoundParams(phBackend, phOut) = MarkerNumbersFrom(phIn, 1)

====
